---- MODULE Spec2Model ----
(***************************************************************************)
(* Model of Translator.py: a Streamlit script that is re-run from top to   *)
(* bottom on every user action.  One action of the model is one complete   *)
(* run of main() for one trigger (record button, translate button, a       *)
(* change of the language selector, a change of the speed slider).  The    *)
(* outcomes of the external collaborators (microphone, recogniser,         *)
(* langdetect, mtranslate, gTTS, pydub) are inputs of the run.  What a run *)
(* put on the page and the calls it made belong to that run: the page is   *)
(* wiped (NewPage) before the next trigger is served.                      *)
(* Speeds are in tenths: 10 is the slider's 1.0.                           *)
(***************************************************************************)
EXTENDS Integers, Sequences, FiniteSets, TLC

VARIABLES
  input_text,       \* st.session_state.input_text
  detected_lang,    \* st.session_state.detected_lang: <<>> (None) or <<code, name>>
  translated_text,  \* st.session_state.translated_text
  target_lang,      \* st.session_state['target_lang'] (code of the selected pair) or Absent
  slider,           \* widget state of the "Speech speed" slider
  files,            \* temporary files that exist on disk after the run
  trigger,          \* what caused the last run; Idle once its page is wiped
  errors,           \* st.error / st.warning messages surfaced by the last run
  tr_calls,         \* calls of translate() made by the last run
  synth_calls,      \* calls of text_to_speech() made by the last run
  adjust_calls,     \* calls of adjust_speed() made by the last run
  played,           \* audio handed to st.audio by the last run
  uncaught          \* the last run ended in an exception main() does not catch

vars == <<input_text, detected_lang, translated_text, target_lang, slider, files,
          trigger, errors, tr_calls, synth_calls, adjust_calls, played, uncaught>>

----------------------------------------------------------------------------
(* Bounds of the model *)

\* number of distinct utterances the recogniser can return
MaxTexts == 2
\* number of registry entries the user picks in the selector
MaxLangs == 2
\* number of slider positions the user picks
MaxSpeeds == 2
\* re-encoding generations of the audio handed to adjust_speed on its own
MaxGen == 1

----------------------------------------------------------------------------
(* Data *)

NoneVal == "None"
Absent == "<absent>"
Unbound == -1
Idle == "idle"

LANGUAGES ==
  [en |-> "English", es |-> "Spanish", fr |-> "French", de |-> "German",
   it |-> "Italian", pt |-> "Portuguese", ru |-> "Russian", zh |-> "Chinese",
   ja |-> "Japanese", hi |-> "Hindi", ta |-> "Tamil"]

TTS_LANGUAGE_MAPPING ==
  [en |-> "en", es |-> "es", fr |-> "fr", de |-> "de", it |-> "it", pt |-> "pt",
   ru |-> "ru", zh |-> "zh", ja |-> "ja", hi |-> "hi", ta |-> "ta"]

\* dict.get(key, default)
Get(d, k, default) == IF k \in DOMAIN d THEN d[k] ELSE default

\* list(LANGUAGES.items()): the options of the selector, in registry order
Options == <<"en", "es", "fr", "de", "it", "pt", "ru", "zh", "ja", "hi", "ta">>

SliderMin == 5
SliderMax == 20
SliderDefault == 10

\* truthiness of a session string: None and "" are falsy
Truthy(s) == s # NoneVal /\ s # ""

Utterances == <<"hello", "bonjour", "hola", "ciao">>
Texts == {Utterances[i] : i \in 1..MaxTexts}
LangChoices == {Options[i] : i \in 1..MaxLangs}
Positions == <<10, 15, 5, 20, 12>>
SpeedChoices == {Positions[i] : i \in 1..MaxSpeeds}

\* mtranslate.translate(text, to_language, 'auto') when the service answers
translate(text, code) == code \o ":" \o text

----------------------------------------------------------------------------
(* record_audio *)

\* lo: "timeout" (recognizer.listen raises), "write_fail" (get_wav_data or
\* f.write raises inside the NamedTemporaryFile block), "ok"
record_audio(lo) ==
  IF lo = "timeout" THEN [raised |-> TRUE, created |-> FALSE]
  ELSE IF lo = "write_fail" THEN [raised |-> TRUE, created |-> TRUE]
  ELSE [raised |-> FALSE, created |-> TRUE]

(* detect_language *)
\* d: the code langdetect returns, or "raise"
detect_language(text, d) ==
  IF d = "raise" THEN <<NoneVal, "Unknown">>
  ELSE <<d, Get(LANGUAGES, d, d)>>

----------------------------------------------------------------------------
(* Audio *)

\* tts.save(temp_path) followed by reading the file back
gTTS(text, lang) == [text |-> text, voice |-> lang, rate |-> 10, gen |-> 0]

\* AudioSegment.from_file(BytesIO(b), format="mp3")
from_file(b) == [text |-> b.text, voice |-> b.voice, rate |-> b.rate]

\* audio.speedup(playback_speed=speed)
speedup(seg, speed) == [seg EXCEPT !.rate = (seg.rate * speed) \div 10]

\* audio.export(f, format="mp3"); f.getvalue(): a lossy re-encoding
export(seg, b) == [text |-> seg.text, voice |-> seg.voice, rate |-> seg.rate, gen |-> b.gen + 1]

AdjustOutcomes == {"ok", "decode_fail", "speedup_fail", "export_fail"}

\* adjust_speed without its except clause
adjust_speed_Raises(audio_bytes, speed, ao) ==
  IF ao = "ok" \/ (speed = 10 /\ ao = "speedup_fail")
  THEN LET audio0 == from_file(audio_bytes)
           audio == IF speed # 10 THEN speedup(audio0, speed) ELSE audio0
       IN [raised |-> FALSE, failed |-> FALSE, out |-> export(audio, audio_bytes), errors |-> <<>>]
  ELSE [raised |-> TRUE, failed |-> TRUE, out |-> audio_bytes, errors |-> <<>>]

\* ao names the step of pydub that raises, if any; errors is what the
\* except clause hands to st.error
adjust_speed(audio_bytes, speed, ao) ==
  IF ao = "decode_fail"
  THEN [raised |-> FALSE, failed |-> TRUE, out |-> audio_bytes, errors |-> <<"speed">>]
  ELSE LET audio0 == from_file(audio_bytes) IN
       IF speed # 10 /\ ao = "speedup_fail"
       THEN [raised |-> FALSE, failed |-> TRUE, out |-> audio_bytes, errors |-> <<"speed">>]
       ELSE LET audio == IF speed # 10 THEN speedup(audio0, speed) ELSE audio0 IN
            IF ao = "export_fail"
            THEN [raised |-> FALSE, failed |-> TRUE, out |-> audio_bytes, errors |-> <<"speed">>]
            ELSE [raised |-> FALSE, failed |-> FALSE, out |-> export(audio, audio_bytes), errors |-> <<>>]

AdjustCall(b, speed, ao) ==
  LET r == adjust_speed(b, speed, ao)
  IN [in |-> b, speed |-> speed, raised |-> r.raised, failed |-> r.failed, out |-> r.out,
      errors |-> r.errors]

----------------------------------------------------------------------------
(* text_to_speech *)

SynthSteps == {"ok", "mktemp_fail", "tts_fail", "audio_fail"}

\* the finally block of text_to_speech: the file is unlinked when temp_path
\* is bound and the file exists
tts_finally(created, bound) == IF created /\ ~bound THEN {"mp3"} ELSE {}

\* so.synth names the step that raises, if any: NamedTemporaryFile
\* ("mktemp_fail"), gTTS/tts.save ("tts_fail"), st.audio ("audio_fail");
\* so.adjust is the outcome of adjust_speed when it is called
text_to_speech(text, language_code, speed, so) ==
  IF so.synth = "mktemp_fail"
  THEN [ok |-> FALSE, lang |-> language_code, step |-> so.synth, adjust |-> <<>>, audio |-> <<>>,
        left |-> tts_finally(FALSE, FALSE), errors |-> <<"tts">>]
  ELSE IF so.synth = "tts_fail"
  THEN [ok |-> FALSE, lang |-> language_code, step |-> so.synth, adjust |-> <<>>, audio |-> <<>>,
        left |-> tts_finally(TRUE, TRUE), errors |-> <<"tts">>]
  ELSE LET audio_bytes == gTTS(text, Get(TTS_LANGUAGE_MAPPING, language_code, "en"))
           adj == IF speed # 10 THEN <<AdjustCall(audio_bytes, speed, so.adjust)>> ELSE <<>>
           adjErr == IF adj # <<>> THEN adj[1].errors ELSE <<>>
       IN IF adj # <<>> /\ adj[1].raised
          THEN [ok |-> FALSE, lang |-> language_code, step |-> so.synth, adjust |-> adj, audio |-> <<>>,
                left |-> tts_finally(TRUE, TRUE), errors |-> <<"tts">>]
          ELSE LET final == IF adj # <<>> THEN adj[1].out ELSE audio_bytes IN
               IF so.synth = "audio_fail"
               THEN [ok |-> FALSE, lang |-> language_code, step |-> so.synth, adjust |-> adj, audio |-> <<>>,
                     left |-> tts_finally(TRUE, TRUE), errors |-> adjErr \o <<"tts">>]
               ELSE [ok |-> TRUE, lang |-> language_code, step |-> so.synth, adjust |-> adj, audio |-> <<final>>,
                     left |-> tts_finally(TRUE, TRUE), errors |-> adjErr]

----------------------------------------------------------------------------
(* main: the record section *)

DetectOutcomes == {"en", "nl", "raise"}

\* lo: outcome of record_audio; recog: what opening the file and
\* recognize_google do ("unknown" = UnknownValueError, "request" =
\* RequestError, "other" = any other exception, "text" = a transcript);
\* det: outcome of langdetect
RecordOutcomes ==
  {[lo |-> l, recog |-> "none", text |-> "", det |-> "raise"] : l \in {"timeout", "write_fail"}}
  \cup {[lo |-> "ok", recog |-> r, text |-> "", det |-> "raise"] : r \in {"unknown", "request", "other"}}
  \cup {[lo |-> "ok", recog |-> "text", text |-> "", det |-> "raise"]}
  \cup {[lo |-> "ok", recog |-> "text", text |-> t, det |-> d] : t \in Texts, d \in DetectOutcomes}

NoRecord == [lo |-> "none", recog |-> "none", text |-> "", det |-> "raise"]

\* the finally block of the record section: the file is unlinked when
\* audio_file is bound and the file exists
record_finally(created, bound) == IF created /\ ~bound THEN {"wav"} ELSE {}

\* a record section that resets input_text before it starts recording
RecordSection_Resets(ro) ==
  LET r == record_audio(ro.lo) IN
  IF r.raised \/ ro.recog \in {"unknown", "request", "other"}
  THEN [input_text |-> NoneVal, detected_lang |-> detected_lang,
        left |-> record_finally(r.created, ~r.raised), errors |-> <<"error">>]
  ELSE [input_text |-> ro.text,
        detected_lang |-> IF Truthy(ro.text) THEN detect_language(ro.text, ro.det)
                          ELSE detected_lang,
        left |-> record_finally(r.created, TRUE), errors |-> <<>>]

\* lines 125-144, the button having been pressed
RecordSection(ro) ==
  LET r == record_audio(ro.lo) IN
  IF r.raised
  THEN [input_text |-> input_text, detected_lang |-> detected_lang,
        left |-> record_finally(r.created, FALSE), errors |-> <<"error">>]
  ELSE IF ro.recog = "unknown"
  THEN [input_text |-> input_text, detected_lang |-> detected_lang,
        left |-> record_finally(r.created, TRUE), errors |-> <<"unintelligible">>]
  ELSE IF ro.recog = "request"
  THEN [input_text |-> input_text, detected_lang |-> detected_lang,
        left |-> record_finally(r.created, TRUE), errors |-> <<"service">>]
  ELSE IF ro.recog = "other"
  THEN [input_text |-> input_text, detected_lang |-> detected_lang,
        left |-> record_finally(r.created, TRUE), errors |-> <<"error">>]
  ELSE [input_text |-> ro.text,
        detected_lang |-> IF Truthy(ro.text) THEN detect_language(ro.text, ro.det)
                          ELSE detected_lang,
        left |-> record_finally(r.created, TRUE), errors |-> <<>>]

\* the button not pressed
SkipRecord ==
  [input_text |-> input_text, detected_lang |-> detected_lang, left |-> {}, errors |-> <<>>]

----------------------------------------------------------------------------
(* main: the translation section *)

TranslateOutcomes == {"ok", "empty", "raise"}

\* a translation section that drops the old translation when the call fails
TranslateSection_Clears(text, code, to) ==
  IF to = "raise"
  THEN [translated_text |-> NoneVal,
        calls |-> <<[text |-> text, code |-> code, raised |-> TRUE]>>,
        errors |-> <<"translation">>]
  ELSE [translated_text |-> IF to = "empty" THEN "" ELSE translate(text, code),
        calls |-> <<[text |-> text, code |-> code, raised |-> FALSE]>>,
        errors |-> <<>>]

\* a translation section that passes its arguments in the wrong order
TranslateSection_Swapped(text, code, to) ==
  IF to = "raise"
  THEN [translated_text |-> translated_text,
        calls |-> <<[text |-> text, code |-> code, raised |-> TRUE]>>,
        errors |-> <<"translation">>]
  ELSE [translated_text |-> IF to = "empty" THEN "" ELSE translate(code, text),
        calls |-> <<[text |-> text, code |-> code, raised |-> FALSE]>>,
        errors |-> <<>>]

\* lines 175-184, the button having been pressed; text is input_text and
\* code is target_lang[0]
TranslateSection(text, code, to) ==
  IF to = "raise"
  THEN [translated_text |-> translated_text,
        calls |-> <<[text |-> text, code |-> code, raised |-> TRUE]>>,
        errors |-> <<"translation">>]
  ELSE [translated_text |-> IF to = "empty" THEN "" ELSE translate(text, code),
        calls |-> <<[text |-> text, code |-> code, raised |-> FALSE]>>,
        errors |-> <<>>]

SkipTranslate ==
  [translated_text |-> translated_text, calls |-> <<>>, errors |-> <<>>]

----------------------------------------------------------------------------
(* main: display of the translation and playback *)

\* one attempt: adjust_speed, with any of its outcomes, is reached unless
\* the temporary file or the synthesis fails first; st.audio comes after it
SynthOutcomes ==
  {[synth |-> f, adjust |-> a] : f \in {"ok", "audio_fail"}, a \in AdjustOutcomes}
  \cup {[synth |-> f, adjust |-> "ok"] : f \in {"mktemp_fail", "tts_fail"}}

\* outcome of the first attempt and, when the first fails, of the second
PlaybackOutcomes ==
  {[first |-> f, second |-> f] : f \in {o \in SynthOutcomes : o.synth = "ok"}}
  \cup {[first |-> f, second |-> s] : f \in {o \in SynthOutcomes : o.synth # "ok"},
                                      s \in SynthOutcomes}

NoPlayback == [first |-> [synth |-> "ok", adjust |-> "ok"],
               second |-> [synth |-> "ok", adjust |-> "ok"]]

\* what a call of text_to_speech was given and what it returned;
\* speed_error: its call of adjust_speed reported a failure
\* step_raised: one of the attempt's own steps (temporary file, gTTS,
\* st.audio) raised
SynthLog(r) ==
  [lang |-> r.lang, ok |-> r.ok, step_raised |-> r.step # "ok",
   speed_error |-> r.adjust # <<>> /\ r.adjust[1].failed]

\* a playback that retries in the selected language instead of "en"
Playback_RetrySame(text, key, speed, po) ==
  IF ~Truthy(text)
  THEN [calls |-> <<>>, adjust |-> <<>>, audio |-> <<>>, left |-> {}, errors |-> <<>>,
        uncaught |-> FALSE]
  ELSE LET target_code == IF key = Absent THEN "en" ELSE key IN
       IF speed = Unbound
       THEN [calls |-> <<>>, adjust |-> <<>>, audio |-> <<>>, left |-> {}, errors |-> <<>>,
             uncaught |-> TRUE]
       ELSE LET a == text_to_speech(text, target_code, speed, po.first) IN
            IF a.ok
            THEN [calls |-> <<SynthLog(a)>>, adjust |-> a.adjust, audio |-> a.audio,
                  left |-> a.left, errors |-> a.errors, uncaught |-> FALSE]
            ELSE LET b == text_to_speech(text, target_code, speed, po.second) IN
                 [calls |-> <<SynthLog(a), SynthLog(b)>>, adjust |-> a.adjust \o b.adjust,
                  audio |-> a.audio \o b.audio, left |-> a.left \cup b.left,
                  errors |-> a.errors \o <<"warning">> \o b.errors, uncaught |-> FALSE]

\* lines 187-195; text is translated_text, key is session_state's
\* 'target_lang' entry, speed is the local variable of main
Playback(text, key, speed, po) ==
  IF ~Truthy(text)
  THEN [calls |-> <<>>, adjust |-> <<>>, audio |-> <<>>, left |-> {}, errors |-> <<>>,
        uncaught |-> FALSE]
  ELSE LET target_code == IF key = Absent THEN "en" ELSE key IN
       IF speed = Unbound
       THEN [calls |-> <<>>, adjust |-> <<>>, audio |-> <<>>, left |-> {}, errors |-> <<>>,
             uncaught |-> TRUE]
       ELSE LET a == text_to_speech(text, target_code, speed, po.first) IN
            IF a.ok
            THEN [calls |-> <<SynthLog(a)>>, adjust |-> a.adjust, audio |-> a.audio,
                  left |-> a.left, errors |-> a.errors, uncaught |-> FALSE]
            ELSE LET b == text_to_speech(text, "en", speed, po.second) IN
                 [calls |-> <<SynthLog(a), SynthLog(b)>>, adjust |-> a.adjust \o b.adjust,
                  audio |-> a.audio \o b.audio, left |-> a.left \cup b.left,
                  errors |-> a.errors \o <<"warning">> \o b.errors, uncaught |-> FALSE]

----------------------------------------------------------------------------
(* main: one run of the script *)

\* a selector whose initial value is the display name instead of the code
Widgets_Name(text, key, sl) ==
  IF Truthy(text)
  THEN [rendered |-> TRUE,
        target_lang |-> IF key = Absent THEN LANGUAGES[Options[1]] ELSE key,
        speed |-> sl]
  ELSE [rendered |-> FALSE, target_lang |-> key, speed |-> Unbound]

\* lines 155-173: the selector and the slider are rendered only when
\* input_text is truthy; the selector stores its value under 'target_lang'
\* (the first option when there is no value yet), the slider binds speed
Widgets(text, key, sl) ==
  IF Truthy(text)
  THEN [rendered |-> TRUE, target_lang |-> IF key = Absent THEN Options[1] ELSE key,
        speed |-> sl]
  ELSE [rendered |-> FALSE, target_lang |-> key, speed |-> Unbound]

\* a script that plays only inside the branch of a successful translation
RunResult_PlayOnce(trig, key, sl, ro, to, po) ==
  LET rec == IF trig = "record" THEN RecordSection(ro) ELSE SkipRecord
      w   == Widgets(rec.input_text, key, sl)
      tr  == IF w.rendered /\ trig = "translate"
             THEN TranslateSection(rec.input_text, w.target_lang, to)
             ELSE SkipTranslate
      pb  == IF tr.calls # <<>> /\ ~tr.calls[1].raised
             THEN Playback(tr.translated_text, w.target_lang, w.speed, po)
             ELSE Playback(NoneVal, w.target_lang, w.speed, po)
  IN [rec |-> rec, w |-> w, tr |-> tr, pb |-> pb]

\* one run of main(): trig is the trigger, key and sl the widget values the
\* browser sends with it, ro/to/po the collaborators' outcomes
RunResult(trig, key, sl, ro, to, po) ==
  LET rec == IF trig = "record" THEN RecordSection(ro) ELSE SkipRecord
      w   == Widgets(rec.input_text, key, sl)
      tr  == IF w.rendered /\ trig = "translate"
             THEN TranslateSection(rec.input_text, w.target_lang, to)
             ELSE SkipTranslate
      pb  == Playback(tr.translated_text, w.target_lang, w.speed, po)
  IN [rec |-> rec, w |-> w, tr |-> tr, pb |-> pb]

\* keep tells whether the framework keeps the state of the widgets when the
\* run did not render them
Run(trig, key, sl, ro, to, po, keep) ==
  \E r \in {RunResult(trig, key, sl, ro, to, po)} :
     /\ input_text' = r.rec.input_text
     /\ detected_lang' = r.rec.detected_lang
     /\ translated_text' = r.tr.translated_text
     /\ target_lang' = IF r.w.rendered \/ keep THEN r.w.target_lang ELSE Absent
     /\ slider' = IF r.w.rendered \/ keep THEN sl ELSE SliderDefault
     /\ files' = files \cup r.rec.left \cup r.pb.left
     /\ trigger' = trig
     /\ errors' = r.rec.errors \o r.tr.errors \o r.pb.errors
     /\ tr_calls' = r.tr.calls
     /\ synth_calls' = r.pb.calls
     /\ adjust_calls' = r.pb.adjust
     /\ played' = r.pb.audio
     /\ uncaught' = r.pb.uncaught

\* the outcomes a run can consume: none when it does not reach playback,
\* none of adjust_speed when the slider is at 1.0
PlaybackInputs(text, sl) ==
  IF ~Truthy(text) THEN {NoPlayback}
  ELSE IF sl = 10 THEN {po \in PlaybackOutcomes : po.first.adjust = "ok" /\ po.second.adjust = "ok"}
  ELSE PlaybackOutcomes

\* the framework's choice matters only when the run renders no widgets
KeepChoices(text) == IF Truthy(text) THEN {TRUE} ELSE BOOLEAN

\* the "Record Voice" button (always on the page)
Record ==
  /\ trigger = Idle
  /\ \E ro \in RecordOutcomes :
       \E po \in PlaybackInputs(translated_text, slider),
          keep \in KeepChoices(RecordSection(ro).input_text) :
         Run("record", target_lang, slider, ro, "ok", po, keep)

\* the "Translate" button (on the page when the last run rendered it)
Translate ==
  /\ trigger = Idle
  /\ Truthy(input_text)
  /\ \E to \in TranslateOutcomes, po \in PlaybackInputs("any", slider) :
       Run("translate", target_lang, slider, NoRecord, to, po, TRUE)

\* the user picks another entry of the selector
SelectLanguage ==
  /\ trigger = Idle
  /\ Truthy(input_text)
  /\ \E c \in LangChoices, po \in PlaybackInputs(translated_text, slider) :
       /\ c # target_lang
       /\ Run("select", c, slider, NoRecord, "ok", po, TRUE)

\* the user moves the slider
MoveSlider ==
  /\ trigger = Idle
  /\ Truthy(input_text)
  /\ \E s \in SpeedChoices :
       /\ s # slider
       /\ \E po \in PlaybackInputs(translated_text, s) :
            Run("slider", target_lang, s, NoRecord, "ok", po, TRUE)

Init ==
  /\ input_text = NoneVal
  /\ detected_lang = <<>>
  /\ translated_text = NoneVal
  /\ target_lang = Absent
  /\ slider = SliderDefault
  /\ files = {}
  /\ trigger = Idle
  /\ errors = <<>>
  /\ tr_calls = <<>>
  /\ synth_calls = <<>>
  /\ adjust_calls = <<>>
  /\ played = <<>>
  /\ uncaught = FALSE

\* the run is over and the next one is about to start: its messages, its
\* audio element and the record of its calls are dropped; the session state,
\* the widgets' values and the files on disk stay
NewPage ==
  /\ trigger # Idle
  /\ trigger' = Idle
  /\ errors' = <<>>
  /\ tr_calls' = <<>>
  /\ synth_calls' = <<>>
  /\ adjust_calls' = <<>>
  /\ played' = <<>>
  /\ uncaught' = FALSE
  /\ UNCHANGED <<input_text, detected_lang, translated_text, target_lang, slider, files>>

Next == Record \/ Translate \/ SelectLanguage \/ MoveSlider \/ NewPage

Spec == Init /\ [][Next]_vars

----------------------------------------------------------------------------
(* adjust_speed on its own: the function applied to every audio and speed *)

AudioInputs ==
  {[text |-> t, voice |-> v, rate |-> 10, gen |-> g] :
     t \in Texts, v \in LangChoices, g \in 0..MaxGen}

AdjustStep ==
  /\ \E b \in AudioInputs, s \in SliderMin..SliderMax, ao \in AdjustOutcomes :
       \E c \in {AdjustCall(b, s, ao)} :
         /\ adjust_calls' = <<c>>
         /\ errors' = c.errors
  /\ trigger' = Idle
  /\ UNCHANGED <<input_text, detected_lang, translated_text, target_lang, slider,
                 files, tr_calls, synth_calls, played, uncaught>>

NextAdjust == AdjustStep

SpecAdjust == Init /\ [][NextAdjust]_vars

----------------------------------------------------------------------------
(* Properties *)

Range(q) == {q[i] : i \in DOMAIN q}

\* the record section of the last run surfaced an error
RecordFailed ==
  /\ trigger = "record"
  /\ errors # <<>>
  /\ errors[1] \in {"error", "unintelligible", "service"}

\* the translate call of the last run raised
TranslateFailed ==
  /\ trigger = "translate"
  /\ tr_calls # <<>>
  /\ tr_calls[1].raised

\* C1: no temporary file (.wav of record_audio, .mp3 of text_to_speech)
\* exists once the run that created it is over, on any exit path.
C1_NoTempFileLeft == files = {}

\* C2: a record action that fails leaves input_text, detected_lang and
\* translated_text as they were before the action.
C2_FailedRecordKeepsState ==
  [][RecordFailed' =>
       /\ input_text' = input_text
       /\ detected_lang' = detected_lang
       /\ translated_text' = translated_text]_vars

\* a failed record action after a successful one: the last-good text is kept
C2_Witness == RecordFailed /\ errors[1] = "unintelligible" /\ Truthy(input_text)

\* C3: a translate action whose translator call raises surfaces an error and
\* leaves translated_text, input_text and detected_lang as they were.
C3_FailedTranslateKeepsState ==
  [][TranslateFailed' =>
       /\ "translation" \in Range(errors')
       /\ translated_text' = translated_text
       /\ input_text' = input_text
       /\ detected_lang' = detected_lang]_vars

\* a failed translate action with an earlier translation still in place
C3_Witness == TranslateFailed /\ Truthy(translated_text)

\* C4: a run that reaches playback makes one synthesis attempt, and exactly
\* one more, with "en", if and only if the first failed.
C4_OneFallbackToEnglish ==
  /\ Len(synth_calls) <= 2
  /\ (trigger # Idle /\ Truthy(translated_text) /\ ~uncaught) => Len(synth_calls) >= 1
  /\ Len(synth_calls) >= 1 => (synth_calls[1].ok <=> Len(synth_calls) = 1)
  /\ Len(synth_calls) = 2 => synth_calls[2].lang = "en"

\* the first attempt, in Spanish, failed and English was tried
C4_Witness ==
  /\ Len(synth_calls) = 2
  /\ synth_calls[1].lang = "es"
  /\ ~synth_calls[1].ok
  /\ synth_calls[2].lang = "en"

\* C5: adjust_speed(b, 1.0) returns b itself.
C5_IdentityAtNormalSpeed ==
  \A i \in DOMAIN adjust_calls :
    adjust_calls[i].speed = 10 => adjust_calls[i].out = adjust_calls[i].in

\* C6: adjust_speed never raises; when one of its steps fails it returns its
\* input, and the synthesis attempt that called it, no other step of it
\* failing, still succeeds and plays that input.
C6_AdjustNeverRaises ==
  /\ \A i \in DOMAIN adjust_calls :
       /\ ~adjust_calls[i].raised
       /\ adjust_calls[i].failed => adjust_calls[i].out = adjust_calls[i].in
  /\ \A i \in DOMAIN synth_calls :
       (synth_calls[i].speed_error /\ ~synth_calls[i].step_raised) =>
         /\ synth_calls[i].ok
         /\ played = <<gTTS(translated_text, synth_calls[i].lang)>>

\* a speed adjustment failed inside a synthesis attempt
C6_Witness ==
  /\ adjust_calls # <<>>
  /\ adjust_calls[1].failed
  /\ adjust_calls[1].speed # 10
  /\ synth_calls[Len(synth_calls)].speed_error

\* C7: every language code handed to the translator or to the synthesizer is
\* a key of LANGUAGES.
C7_CodesAreRegistered ==
  /\ \A i \in DOMAIN tr_calls : tr_calls[i].code \in DOMAIN LANGUAGES
  /\ \A i \in DOMAIN synth_calls : synth_calls[i].lang \in DOMAIN LANGUAGES

\* a run that translated, then synthesized twice
C7_Witness ==
  /\ tr_calls # <<>>
  /\ Len(synth_calls) = 2
  /\ synth_calls[1].lang # "en"

\* C8 as stated: synthesis happens only in a run whose translate action
\* succeeded.
C8_PlaybackOnlyAfterTranslation ==
  synth_calls # <<>> =>
    /\ trigger = "translate"
    /\ tr_calls # <<>>
    /\ ~tr_calls[1].raised

\* C8 as amended: a run synthesizes exactly when it ends with a non-empty
\* translated_text and a non-empty input_text, whatever triggered it.
C8_PlaybackWheneverTranslationSet ==
  trigger # Idle =>
    (synth_calls # <<>> <=> (Truthy(translated_text) /\ Truthy(input_text)))

\* a run triggered by the slider, or one whose translation failed, that
\* synthesized the translation of an earlier run
C8_Witness ==
  /\ synth_calls # <<>>
  /\ \/ trigger = "slider"
     \/ TranslateFailed

\* C9: no run ends in an uncaught exception at playback: whenever
\* translated_text is non-empty, input_text is non-empty as well.
C9_NoUncaughtFailure ==
  /\ ~uncaught
  /\ Truthy(translated_text) => Truthy(input_text)

\* C10 as stated: a translated_text that is set is the translation of the
\* current input_text.
C10_TranslationOfCurrentInput ==
  Truthy(translated_text) =>
    \E c \in DOMAIN LANGUAGES : translated_text = translate(input_text, c)

\* C10 as amended: translated_text changes only in a run whose translate
\* action succeeded, and then to what the translator returned for the
\* current input_text; a record action never changes it.
C10_TranslationChangesOnlyByTranslate ==
  [][translated_text' # translated_text =>
       /\ trigger' = "translate"
       /\ tr_calls' # <<>> /\ ~tr_calls'[1].raised
       /\ input_text' = input_text
       /\ \/ translated_text' = ""
          \/ \E c \in DOMAIN LANGUAGES : translated_text' = translate(input_text', c)]_vars

\* a successful record action that left the translation of the earlier
\* recording in place
C10_Witness ==
  /\ trigger = "record"
  /\ errors = <<>>
  /\ Truthy(input_text)
  /\ Truthy(translated_text)
  /\ \A c \in DOMAIN LANGUAGES : translated_text # translate(input_text, c)

====
